---- MODULE Spec2Model ----
(***************************************************************************)
(* Model of the Google Business Scraper backend (backend/main.py and       *)
(* backend/database.py): the users / jobs / results / job_logs tables, the *)
(* authentication dependencies, the HTTP handlers and the background task  *)
(* run_scraping_job, one action per handler or per step of the task.       *)
(*                                                                         *)
(* Abstractions: timestamps are reduced to "set / not set"; the scraped    *)
(* listing fields other than city, state, category and the listing URL are *)
(* left out; a UUID job id is the row number of the job.  backend/auth.py  *)
(* is not part of the sources, so password hashing and token handling      *)
(* follow the specification of the Credential & Token Service.             *)
(***************************************************************************)
EXTENDS Integers, Sequences, FiniteSets, TLC

\* ------------------------------------------------------------------ bounds
MaxUserId == 3      \* user rows ever inserted (AUTOINCREMENT values 1..MaxUserId)
MaxJobs == 1        \* jobs ever created
MaxLocs == 3        \* longest cities_data list submitted
MaxResults == 2     \* largest max_results_per_city submitted

\* ------------------------------------------------------------------ inputs
Usernames == {"admin", "alice"}
Emails == {"admin@example.com", "alice@example.com"}
Passwords == {"admin123", "secret"}    \* passwords tried at login
RegPasswords == {"secret"}             \* passwords chosen at registration

\* Location strings as sequences of characters.
LocReno == <<"R", ",", " ", "N">>          \* "R, N"    well formed
LocBad == <<"L", "A">>                     \* "LA"      no comma
LocThree == <<"A", ",", "B", ",", "C">>    \* "A,B,C"   three parts
Locations == {LocReno, LocBad, LocThree}

SeqsUpTo(S, n) == UNION {[1..k -> S] : k \in 0..n}

\* ScrapingRequest bodies (category is the same string in every request).
Requests == [category : {"cafes"},
             cities_data : SeqsUpTo(Locations, MaxLocs),
             max_results_per_city : 1..MaxResults]

\* The request of the specification's scenario (section 8), with a cap of one.
ApiRequests == {[category |-> "cafes", cities_data |-> <<LocReno>>,
                 max_results_per_city |-> 1]}

\* ------------------------------------------------------------ str helpers
RECURSIVE split(_)
\* str.split(","): the parts between commas, always at least one part.
split(s) ==
  IF \A i \in 1..Len(s) : s[i] # ","
    THEN <<s>>
    ELSE LET i == CHOOSE k \in 1..Len(s) :
                    s[k] = "," /\ \A m \in 1..(k-1) : s[m] # ","
         IN <<SubSeq(s, 1, i-1)>> \o split(SubSeq(s, i+1, Len(s)))

RECURSIVE strip(_)
\* str.strip(): drop leading and trailing blanks.
strip(s) ==
  IF s = <<>> THEN s
  ELSE IF Head(s) = " " THEN strip(Tail(s))
  ELSE IF s[Len(s)] = " " THEN strip(SubSeq(s, 1, Len(s)-1))
  ELSE s

\* ------------------------------------------------------------------- state
VARIABLES
  users,        \* rows of table users
  nextUserId,   \* next AUTOINCREMENT id of table users
  tokens,       \* access tokens issued by login; none expires in the time modelled
  jobs,         \* rows of table jobs, in insertion order (job_id = position)
  results,      \* rows of table results, in insertion order
  job_logs,     \* rows of table job_logs, in insertion order
  tasks,        \* per job: the locals and position of its run_scraping_job task
                \* (counts: the sizes of the lists scrape_location returned;
                \* exc: the text of the exception that escaped, if any)
  csv_files,    \* job ids for which a CSV export file was written
  resp          \* the request handled by the last step and its response

dbVars == <<users, nextUserId, jobs, results, job_logs, csv_files>>
vars == <<users, nextUserId, tokens, jobs, results, job_logs, tasks, csv_files, resp>>

\* ScrapingStatus
PENDING == "pending"
RUNNING == "running"
COMPLETED == "completed"
FAILED == "failed"

None == "None"
NoToken == [sub |-> None, uid |-> 0]
\* resp: the handler that ran in the last step, the bearer token it was called
\* with (for a successful login: the token it returned), the user_id or
\* job_id of its path (0 if it has none) and its status code.
NoResp == [op |-> "none", tok |-> NoToken, arg |-> 0, code |-> 0]
Resp(op, token, arg, code) == [op |-> op, tok |-> token, arg |-> arg, code |-> code]

\* --------------------------------------------- Credential & Token Service
get_password_hash(password) == <<"hash", password>>
verify_password(password, hash) == hash = get_password_hash(password)

\* A token carries the username as "sub"; uid is not part of the payload, it
\* records for which user row the token was issued.
create_access_token(sub, uid) == [sub |-> sub, uid |-> uid]

\* decode(token) -> identity | invalid: the payload of a token that was issued
\* here and has not expired, no identity for anything else.
decode_access_token(token) ==
  IF token \in tokens THEN [sub |-> token.sub] ELSE [sub |-> None]

\* --------------------------------------------------------------- database
init_database ==
  /\ users = {[id |-> 1, username |-> "admin", email |-> "admin@example.com",
               password_hash |-> get_password_hash("admin123"),
               is_approved |-> TRUE, is_admin |-> TRUE, last_login |-> FALSE]}
  /\ nextUserId = 2
  /\ jobs = <<>>
  /\ results = <<>>
  /\ job_logs = <<>>

UsersByName(username) == {u \in users : u.username = username}
UsersByEmail(email) == {u \in users : u.email = email}
JobIds == 1..Len(jobs)

\* ---------------------------------------------------------- dependencies
\* Faulty variant of get_current_user: the approval flag is not looked at.
get_current_user_any(token) ==
  LET payload == decode_access_token(token) IN
  IF payload.sub = None THEN [code |-> 401, user |-> None]
  ELSE IF UsersByName(payload.sub) = {} THEN [code |-> 401, user |-> None]
  ELSE [code |-> 200, user |-> CHOOSE u \in UsersByName(payload.sub) : TRUE]

\* get_current_user: [code, user]; code 200 means the dependency returned.
get_current_user(token) ==
  LET payload == decode_access_token(token) IN
  IF payload.sub = None THEN [code |-> 401, user |-> None]
  ELSE IF UsersByName(payload.sub) = {} THEN [code |-> 401, user |-> None]
  ELSE LET user == CHOOSE u \in UsersByName(payload.sub) : TRUE IN
       IF ~user.is_approved THEN [code |-> 403, user |-> None]
       ELSE [code |-> 200, user |-> user]

\* Faulty variant of get_admin_user: the admin flag is not looked at.
get_admin_user_any(token) == get_current_user(token)

get_admin_user(token) ==
  LET cu == get_current_user(token) IN
  IF cu.code # 200 THEN cu
  ELSE IF ~cu.user.is_admin THEN [code |-> 403, user |-> None]
  ELSE cu

\* A bearer token that does not decode (expired, forged or malformed) although
\* it names the user sub; an expired token is presented as one of these.
InvalidToken(sub) == [sub |-> sub, uid |-> 0]

\* What a client can present: any token issued and not yet expired, or an
\* invalid one.
PresentedTokens == tokens \cup {InvalidToken(s) : s \in Usernames}

Init ==
  /\ init_database
  /\ tokens = {}
  /\ tasks = <<>>
  /\ csv_files = {}
  /\ resp = NoResp

\* ---------------------------------------------------------- auth endpoints
\* Faulty variant of register: the id is the largest id in the table plus
\* one (a rowid without AUTOINCREMENT), so the id of a deleted last row is
\* given out again.
register_rowid(username, email, password) ==
  IF UsersByName(username) # {} \/ UsersByEmail(email) # {}
    THEN /\ resp' = Resp("register", NoToken, 0, 400)
         /\ UNCHANGED <<users, nextUserId>>
    ELSE /\ nextUserId <= MaxUserId
         /\ users' = users \cup
               {[id |-> 1 + Cardinality({i \in 1..MaxUserId : \E u \in users : u.id >= i}),
                 username |-> username, email |-> email,
                 password_hash |-> get_password_hash(password),
                 is_approved |-> FALSE, is_admin |-> FALSE, last_login |-> FALSE]}
         /\ nextUserId' = nextUserId + 1
         /\ resp' = Resp("register", NoToken, 0, 201)

\* Faulty variant of register: the email is not looked up.
register_name_only(username, email, password) ==
  IF UsersByName(username) # {}
    THEN /\ resp' = Resp("register", NoToken, 0, 400)
         /\ UNCHANGED <<users, nextUserId>>
    ELSE /\ nextUserId <= MaxUserId
         /\ users' = users \cup
               {[id |-> nextUserId, username |-> username, email |-> email,
                 password_hash |-> get_password_hash(password),
                 is_approved |-> FALSE, is_admin |-> FALSE, last_login |-> FALSE]}
         /\ nextUserId' = nextUserId + 1
         /\ resp' = Resp("register", NoToken, 0, 201)

\* POST /api/auth/register
register(username, email, password) ==
  IF UsersByName(username) # {} \/ UsersByEmail(email) # {}
    THEN /\ resp' = Resp("register", NoToken, 0, 400)
         /\ UNCHANGED <<users, nextUserId>>
    ELSE /\ nextUserId <= MaxUserId
         /\ users' = users \cup
               {[id |-> nextUserId, username |-> username, email |-> email,
                 password_hash |-> get_password_hash(password),
                 is_approved |-> FALSE, is_admin |-> FALSE, last_login |-> FALSE]}
         /\ nextUserId' = nextUserId + 1
         /\ resp' = Resp("register", NoToken, 0, 201)

Register ==
  /\ \E username \in Usernames, email \in Emails, password \in RegPasswords :
        register(username, email, password)
  /\ UNCHANGED <<tokens, jobs, results, job_logs, tasks, csv_files>>

\* Faulty variant of login_code: the approval flag is not looked at.
login_code_any(username, password) ==
  IF UsersByName(username) = {} THEN 401
  ELSE LET user == CHOOSE u \in UsersByName(username) : TRUE IN
       IF ~verify_password(password, user.password_hash) THEN 401 ELSE 200

\* POST /api/auth/login (lines 195-209): the status code login answers with.
login_code(username, password) ==
  IF UsersByName(username) = {} THEN 401
  ELSE LET user == CHOOSE u \in UsersByName(username) : TRUE IN
       IF ~verify_password(password, user.password_hash) THEN 401
       ELSE IF ~user.is_approved THEN 403
       ELSE 200

login(username, password) ==
  IF login_code(username, password) # 200
    THEN /\ resp' = Resp("login", NoToken, 0, login_code(username, password))
         /\ UNCHANGED <<users, tokens>>
    ELSE LET user == CHOOSE u \in UsersByName(username) : TRUE
             access_token == create_access_token(user.username, user.id)
         IN
         /\ users' = (users \ {user}) \cup {[user EXCEPT !.last_login = TRUE]}
         /\ tokens' = tokens \cup {access_token}
         /\ resp' = Resp("login", access_token, 0, 200)

Login ==
  /\ \E username \in Usernames, password \in Passwords : login(username, password)
  /\ UNCHANGED <<nextUserId, jobs, results, job_logs, tasks, csv_files>>

\* GET /api/auth/me
get_current_user_info(token) == get_current_user(token).code

Me ==
  /\ \E token \in PresentedTokens :
        resp' = Resp("me", token, 0, get_current_user_info(token))
  /\ UNCHANGED <<users, nextUserId, tokens, jobs, results, job_logs, tasks, csv_files>>

\* --------------------------------------------------------- admin endpoints
\* GET /api/admin/users
get_all_users(token) == get_admin_user(token).code

AdminUsers ==
  /\ \E token \in PresentedTokens :
        resp' = Resp("admin_users", token, 0, get_all_users(token))
  /\ UNCHANGED <<users, nextUserId, tokens, jobs, results, job_logs, tasks, csv_files>>

\* POST /api/admin/users/{user_id}/approve
approve_user(token, user_id) ==
  IF get_admin_user(token).code # 200
    THEN /\ resp' = Resp("approve", token, user_id, get_admin_user(token).code)
         /\ UNCHANGED users
    ELSE /\ users' = {IF u.id = user_id THEN [u EXCEPT !.is_approved = TRUE] ELSE u :
                        u \in users}
         /\ resp' = Resp("approve", token, user_id, 200)

Approve ==
  /\ \E token \in PresentedTokens, user_id \in 1..MaxUserId : approve_user(token, user_id)
  /\ UNCHANGED <<nextUserId, tokens, jobs, results, job_logs, tasks, csv_files>>

\* DELETE /api/admin/users/{user_id}
delete_user(token, user_id) ==
  IF get_admin_user(token).code # 200
    THEN /\ resp' = Resp("delete", token, user_id, get_admin_user(token).code)
         /\ UNCHANGED users
    ELSE /\ users' = {u \in users : u.id # user_id}
         /\ resp' = Resp("delete", token, user_id, 200)

Delete ==
  /\ \E token \in PresentedTokens, user_id \in 1..MaxUserId : delete_user(token, user_id)
  /\ UNCHANGED <<nextUserId, tokens, jobs, results, job_logs, tasks, csv_files>>

\* GET /api/admin/stats
get_admin_stats(token) == get_admin_user(token).code

AdminStats ==
  /\ \E token \in PresentedTokens :
        resp' = Resp("admin_stats", token, 0, get_admin_stats(token))
  /\ UNCHANGED <<users, nextUserId, tokens, jobs, results, job_logs, tasks, csv_files>>

\* ------------------------------------------------------------ job endpoints
authVars == <<users, nextUserId, tokens>>

\* POST /api/jobs: insert the job row and schedule the background task.
create_scraping_job(token, request) ==
  LET cu == get_current_user(token) IN
  IF cu.code # 200
    THEN /\ resp' = Resp("create_job", token, 0, cu.code)
         /\ UNCHANGED <<jobs, tasks>>
    ELSE /\ Len(jobs) < MaxJobs
         /\ jobs' = Append(jobs,
               [job_id |-> Len(jobs) + 1, user_id |-> cu.user.id,
                category |-> request.category, cities_data |-> request.cities_data,
                max_results_per_city |-> request.max_results_per_city,
                status |-> PENDING, progress |-> 0,
                total_cities |-> Len(request.cities_data),
                current_city |-> <<>>, error |-> None, completed_at |-> FALSE])
         /\ tasks' = Append(tasks,
               [pc |-> "queued", idx |-> 0, all_results |-> <<>>, results |-> <<>>,
                page |-> FALSE, cancelled |-> FALSE, counts |-> <<>>, exc |-> None])
         /\ resp' = Resp("create_job", token, Len(jobs) + 1, 200)

CreateJob ==
  /\ \E token \in PresentedTokens, request \in ApiRequests :
        create_scraping_job(token, request)
  /\ UNCHANGED <<authVars, results, job_logs, csv_files>>

\* The same handler with any request body, for the first job of the store.
SubmitJob ==
  /\ jobs = <<>>
  /\ \E token \in PresentedTokens, request \in Requests :
        create_scraping_job(token, request)
  /\ UNCHANGED <<authVars, results, job_logs, csv_files>>

\* The rows of table jobs matching "job_id = ? AND user_id = ?".
JobsOf(job_id, user_id) ==
  {j \in JobIds : jobs[j].job_id = job_id /\ jobs[j].user_id = user_id}

ResultsOf(job_id) == SelectSeq(results, LAMBDA r : r.job_id = job_id)

\* GET /api/jobs/{job_id}
get_job_status(token, job_id) ==
  LET cu == get_current_user(token) IN
  IF cu.code # 200 THEN [code |-> cu.code, body |-> None]
  ELSE IF JobsOf(job_id, cu.user.id) = {} THEN [code |-> 404, body |-> None]
  ELSE [code |-> 200,
        body |-> [job |-> jobs[CHOOSE j \in JobsOf(job_id, cu.user.id) : TRUE],
                  results |-> ResultsOf(job_id)]]

GetJobStatus ==
  /\ \E token \in PresentedTokens, job_id \in 1..MaxJobs :
        resp' = Resp("job_status", token, job_id, get_job_status(token, job_id).code)
  /\ UNCHANGED <<authVars, jobs, results, job_logs, tasks, csv_files>>

\* GET /api/jobs
get_user_jobs(token) ==
  LET cu == get_current_user(token) IN
  IF cu.code # 200 THEN [code |-> cu.code, body |-> {}]
  ELSE [code |-> 200, body |-> {jobs[j].job_id : j \in {i \in JobIds : jobs[i].user_id = cu.user.id}}]

GetUserJobs ==
  /\ \E token \in PresentedTokens :
        resp' = Resp("user_jobs", token, 0, get_user_jobs(token).code)
  /\ UNCHANGED <<authVars, jobs, results, job_logs, tasks, csv_files>>

\* Faulty variant of get_job_results: the owner of the job is not compared.
get_job_results_any(token, job_id) ==
  LET cu == get_current_user(token) IN
  IF cu.code # 200 THEN [code |-> cu.code, body |-> None]
  ELSE IF job_id \notin JobIds THEN [code |-> 404, body |-> None]
  ELSE [code |-> 200, body |-> ResultsOf(job_id)]

\* GET /api/jobs/{job_id}/results
get_job_results(token, job_id) ==
  LET cu == get_current_user(token) IN
  IF cu.code # 200 THEN [code |-> cu.code, body |-> None]
  ELSE IF job_id \notin JobIds \/ jobs[job_id].user_id # cu.user.id
    THEN [code |-> 404, body |-> None]
  ELSE [code |-> 200, body |-> ResultsOf(job_id)]

GetJobResults ==
  /\ \E token \in PresentedTokens, job_id \in 1..MaxJobs :
        resp' = Resp("job_results", token, job_id, get_job_results(token, job_id).code)
  /\ UNCHANGED <<authVars, jobs, results, job_logs, tasks, csv_files>>

\* Faulty variant of download_results: the status of the job is not looked at.
download_results_any_status(token, job_id) ==
  LET cu == get_current_user(token) IN
  IF cu.code # 200 THEN [code |-> cu.code, body |-> None]
  ELSE IF JobsOf(job_id, cu.user.id) = {} THEN [code |-> 404, body |-> None]
  ELSE [code |-> 200, body |-> ResultsOf(job_id)]

\* GET /api/jobs/{job_id}/download
download_results(token, job_id) ==
  LET cu == get_current_user(token) IN
  IF cu.code # 200 THEN [code |-> cu.code, body |-> None]
  ELSE IF JobsOf(job_id, cu.user.id) = {} THEN [code |-> 404, body |-> None]
  ELSE IF jobs[CHOOSE j \in JobsOf(job_id, cu.user.id) : TRUE].status # COMPLETED
    THEN [code |-> 400, body |-> None]
  ELSE [code |-> 200, body |-> ResultsOf(job_id)]

Download ==
  /\ \E token \in PresentedTokens, job_id \in 1..MaxJobs :
        resp' = Resp("download", token, job_id, download_results(token, job_id).code)
  /\ UNCHANGED <<authVars, jobs, results, job_logs, tasks, csv_files>>

\* ----------------------------------------------------------------- scraper
\* GoogleBusinessScraper.scrape_location when n listings are extracted: one
\* record per listing URL, carrying the category, city and state it was given.
scrape_location(category, city, state, n) ==
  [i \in 1..n |-> [category |-> category, city |-> city, state |-> state,
                   google_maps_url |-> i]]

\* --------------------------------------------------------- background task
\* Faulty variant of Progress: the quotient is rounded up from one half on.
Progress_half_up(idx, total) == ((idx + 1) * 200 + total) \div (2 * total)

\* Faulty variant of Progress: the share of the locations still to come.
Progress_remaining(idx, total) == ((total - idx) * 100) \div total

\* line 512: progress = int((idx + 1) / len(request.cities_data) * 100); the
\* float expression equals the integer quotient for every list shorter than 50.
Progress(idx, total) == ((idx + 1) * 100) \div total

Log(job_id, message) == [job_id |-> job_id, log_message |-> message]

TaskAt(j, pc) == j \in JobIds /\ tasks[j].pc = pc

\* lines 486-489: UPDATE jobs SET status = 'running'
RunSetRunning(j) ==
  /\ TaskAt(j, "queued")
  /\ jobs' = [jobs EXCEPT ![j].status = RUNNING]
  /\ tasks' = [tasks EXCEPT ![j].pc = "startlog"]
  /\ resp' = NoResp
  /\ UNCHANGED <<authVars, results, job_logs, csv_files>>

\* lines 491-496: the "Starting scraping job" log row
RunStartLog(j) ==
  /\ TaskAt(j, "startlog")
  /\ job_logs' = Append(job_logs, Log(j, "Starting scraping job"))
  /\ tasks' = [tasks EXCEPT ![j].pc = "loop"]
  /\ resp' = NoResp
  /\ UNCHANGED <<authVars, jobs, results, csv_files>>

\* Faulty variant of SkipLocation: the progress is written before the parts
\* are counted.
SkipLocation_progress(j) ==
  /\ tasks' = [tasks EXCEPT ![j].idx = @ + 1]
  /\ jobs' = [jobs EXCEPT ![j].progress =
                 ((tasks[j].idx + 1) * 100) \div Len(jobs[j].cities_data)]

\* line 507, the branch not taken: nothing is written for a location with
\* fewer than two parts, and the enumeration moves on.
SkipLocation(j) ==
  /\ tasks' = [tasks EXCEPT ![j].idx = @ + 1]
  /\ UNCHANGED jobs

\* Faulty variant of RunLoopHead: the persisted status is not read.
RunLoopHead_unchecked(j) ==
  /\ TaskAt(j, "loop")
  /\ LET t == tasks[j]
         cities == jobs[j].cities_data
     IN IF t.idx >= Len(cities)
          THEN /\ tasks' = [tasks EXCEPT ![j].pc = "csv"]
               /\ UNCHANGED jobs
        ELSE LET parts == split(cities[t.idx + 1]) IN
          IF Len(parts) >= 2
            THEN /\ jobs' = [jobs EXCEPT
                       ![j].current_city = strip(parts[1]) \o <<",", " ">> \o strip(parts[2]),
                       ![j].progress = Progress(t.idx, Len(cities))]
                 /\ tasks' = [tasks EXCEPT ![j].pc = "proclog"]
            ELSE SkipLocation(j)
  /\ resp' = NoResp
  /\ UNCHANGED <<authVars, results, job_logs, csv_files>>

\* lines 498-519: one pass over the head of the for loop: the cancellation
\* check, the parse of the location and the progress write.
RunLoopHead(j) ==
  /\ TaskAt(j, "loop")
  /\ LET t == tasks[j]
         cities == jobs[j].cities_data
     IN IF t.idx >= Len(cities)
          THEN /\ tasks' = [tasks EXCEPT ![j].pc = "csv"]
               /\ UNCHANGED jobs
        ELSE IF jobs[j].status = FAILED
          THEN /\ tasks' = [tasks EXCEPT ![j].pc = "csv", ![j].cancelled = TRUE]
               /\ UNCHANGED jobs
        ELSE LET parts == split(cities[t.idx + 1]) IN
          IF Len(parts) >= 2
            THEN LET city == strip(parts[1])
                     state == strip(parts[2])
                 IN /\ jobs' = [jobs EXCEPT
                          ![j].current_city = city \o <<",", " ">> \o state,
                          ![j].progress = Progress(t.idx, Len(cities))]
                    /\ tasks' = [tasks EXCEPT ![j].pc = "proclog"]
            ELSE SkipLocation(j)
  /\ resp' = NoResp
  /\ UNCHANGED <<authVars, results, job_logs, csv_files>>

\* lines 521-526: the "Processing city" log row
RunProcessLog(j) ==
  /\ TaskAt(j, "proclog")
  /\ job_logs' = Append(job_logs, Log(j, "Processing city"))
  /\ tasks' = [tasks EXCEPT ![j].pc = "scrape"]
  /\ resp' = NoResp
  /\ UNCHANGED <<authVars, jobs, results, csv_files>>

\* lines 528-536 with scrape_location (363-471): the browser is there (or is
\* launched now), and the call returns n records, n up to max_results: every
\* failure inside its try block gives the empty list, a failure on one
\* listing URL leaves that listing out.
RunScrape(j) ==
  /\ TaskAt(j, "scrape")
  /\ \E n \in 0..jobs[j].max_results_per_city :
       LET parts == split(jobs[j].cities_data[tasks[j].idx + 1])
           found == scrape_location(jobs[j].category, strip(parts[1]), strip(parts[2]), n)
       IN tasks' = [tasks EXCEPT ![j].pc = "save", ![j].page = TRUE,
                                 ![j].results = found,
                                 ![j].all_results = @ \o found,
                                 ![j].counts = Append(@, n)]
  /\ resp' = NoResp
  /\ UNCHANGED <<authVars, jobs, results, job_logs, csv_files>>

ResultRow(job_id, result) ==
  [job_id |-> job_id, category |-> result.category, city |-> result.city,
   state |-> result.state, google_maps_url |-> result.google_maps_url]

\* Faulty variant of insert_results: the last record of the list is left out.
insert_results_short(job_id, found) ==
  results \o [i \in 1..(Len(found) - 1) |-> ResultRow(job_id, found[i])]

\* lines 539-547: one INSERT INTO results per record of the list
insert_results(job_id, found) ==
  results \o [i \in 1..Len(found) |-> ResultRow(job_id, found[i])]

\* lines 538-548: the inserts, then commit
RunSaveResults(j) ==
  /\ TaskAt(j, "save")
  /\ results' = insert_results(j, tasks[j].results)
  /\ tasks' = [tasks EXCEPT ![j].pc = "foundlog"]
  /\ resp' = NoResp
  /\ UNCHANGED <<authVars, jobs, job_logs, csv_files>>

\* lines 550-557: the "Found n businesses" log row, the pacing delay, and on
\* to the next element of the enumeration
RunFoundLog(j) ==
  /\ TaskAt(j, "foundlog")
  /\ job_logs' = Append(job_logs, Log(j, "Found businesses"))
  /\ tasks' = [tasks EXCEPT ![j].pc = "loop", ![j].idx = @ + 1]
  /\ resp' = NoResp
  /\ UNCHANGED <<authVars, jobs, results, csv_files>>

\* lines 559-564: the CSV export, only when there is a result
RunExportCsv(j) ==
  /\ TaskAt(j, "csv")
  /\ csv_files' = IF tasks[j].all_results # <<>> THEN csv_files \cup {j} ELSE csv_files
  /\ tasks' = [tasks EXCEPT ![j].pc = "complete"]
  /\ resp' = NoResp
  /\ UNCHANGED <<authVars, jobs, results, job_logs>>

\* lines 566-571: UPDATE jobs SET status = 'completed', progress = 100
RunComplete(j) ==
  /\ TaskAt(j, "complete")
  /\ jobs' = [jobs EXCEPT ![j].status = COMPLETED, ![j].progress = 100,
                          ![j].completed_at = TRUE]
  /\ tasks' = [tasks EXCEPT ![j].pc = "complog"]
  /\ resp' = NoResp
  /\ UNCHANGED <<authVars, results, job_logs, csv_files>>

\* lines 573-578 and the finally block: the "Job completed" log row
RunCompletionLog(j) ==
  /\ TaskAt(j, "complog")
  /\ job_logs' = Append(job_logs, Log(j, "Job completed successfully"))
  /\ tasks' = [tasks EXCEPT ![j].pc = "done"]
  /\ resp' = NoResp
  /\ UNCHANGED <<authVars, jobs, results, csv_files>>

\* str(e) of the exception that the step at pc raises.
ExceptionText(pc) ==
  CASE pc = "queued" -> "status write failed"
    [] pc = "startlog" -> "start log write failed"
    [] pc = "loop" -> "progress write failed"
    [] pc = "proclog" -> "processing log write failed"
    [] pc = "scrape" -> "browser launch failed"
    [] pc = "save" -> "result insert failed"
    [] pc = "foundlog" -> "found log write failed"
    [] pc = "csv" -> "csv export failed"
    [] pc = "complete" -> "completion write failed"
    [] pc = "complog" -> "completion log write failed"

\* Whether the step the task is at can raise: every store write and read
\* can; scrape_location can only while there is no page yet, because
\* init_browser (lines 365-366) runs outside its try block; the CSV export
\* only when it has something to write.
CanRaise(j) ==
  LET t == tasks[j] IN
  CASE t.pc \in {"done", "crashed"} -> FALSE
    [] t.pc = "loop" -> t.idx < Len(jobs[j].cities_data)
    [] t.pc = "scrape" -> ~t.page
    [] t.pc = "csv" -> t.all_results # <<>>
    [] OTHER -> TRUE

\* Faulty variant of mark_failed: the error is stored, the status is not.
mark_failed_error_only(job, e) ==
  [job EXCEPT !.error = e, !.completed_at = TRUE]

\* lines 583-586: UPDATE jobs SET status = 'failed', error = str(e)
mark_failed(job, e) ==
  [job EXCEPT !.status = FAILED, !.error = e, !.completed_at = TRUE]

\* lines 580-596: an exception escapes the step the task is at and the
\* handler records it.  A failing result insert leaves the rows inserted
\* before it, which the handler's commit makes permanent.
RunRaise(j) ==
  /\ j \in JobIds
  /\ CanRaise(j)
  /\ LET e == ExceptionText(tasks[j].pc) IN
       /\ jobs' = [jobs EXCEPT ![j] = mark_failed(@, e)]
       /\ job_logs' = Append(job_logs, Log(j, "Job failed with error"))
  /\ IF tasks[j].pc = "save"
       THEN \E m \in 0..Len(tasks[j].results) :
              /\ m < Len(tasks[j].results) \/ m = 0
              /\ results' = insert_results(j, SubSeq(tasks[j].results, 1, m))
       ELSE UNCHANGED results
  /\ tasks' = [tasks EXCEPT ![j].pc = "done", ![j].exc = ExceptionText(tasks[j].pc)]
  /\ resp' = NoResp
  /\ UNCHANGED <<authVars, csv_files>>

\* An actor outside run_scraping_job marks a running job failed (the
\* cancellation that the loop head looks for).
ExternalFail(j) ==
  /\ j \in JobIds
  /\ jobs[j].status = RUNNING
  /\ jobs' = [jobs EXCEPT ![j].status = FAILED]
  /\ resp' = NoResp
  /\ UNCHANGED <<authVars, results, job_logs, tasks, csv_files>>

\* lines 580-596 when the handler's own UPDATE raises as well (or line 481,
\* get_db, raises before the try block is entered): the exception leaves the
\* task, the finally block closes the connection, which discards what was
\* not committed, and the job row stays as it was.
RunRaiseUnrecorded(j) ==
  /\ j \in JobIds
  /\ CanRaise(j)
  /\ tasks' = [tasks EXCEPT ![j].pc = "crashed", ![j].exc = ExceptionText(tasks[j].pc)]
  /\ resp' = NoResp
  /\ UNCHANGED <<authVars, jobs, results, job_logs, csv_files>>

RunStep ==
  \E j \in 1..MaxJobs :
    \/ RunSetRunning(j)
    \/ RunStartLog(j)
    \/ RunLoopHead(j)
    \/ RunProcessLog(j)
    \/ RunScrape(j)
    \/ RunSaveResults(j)
    \/ RunFoundLog(j)
    \/ RunExportCsv(j)
    \/ RunComplete(j)
    \/ RunCompletionLog(j)

Raise == \E j \in 1..MaxJobs : RunRaise(j)

Cancel == \E j \in 1..MaxJobs : ExternalFail(j)

Crash == \E j \in 1..MaxJobs : RunRaiseUnrecorded(j)

Next ==
  \/ Register
  \/ Login
  \/ Me
  \/ AdminUsers
  \/ Approve
  \/ Delete
  \/ AdminStats
  \/ CreateJob
  \/ GetJobStatus
  \/ GetUserJobs
  \/ GetJobResults
  \/ Download
  \/ RunStep
  \/ Raise

\* Every handler, with the request of the scenario and concurrent tasks.
Spec == Init /\ [][Next]_vars

\* One job of any request body followed through every step of its task, with
\* the external actor; the only user is the admin that init_database creates.
NextRun ==
  \/ Login
  \/ SubmitJob
  \/ RunStep
  \/ Raise
  \/ Cancel

SpecRun == Init /\ [][NextRun]_vars

\* SpecRun when every store access, scraper call and export returns: the
\* task interleaved with the external actor alone.
NextQuiet ==
  \/ Login
  \/ SubmitJob
  \/ RunStep
  \/ Cancel

SpecQuiet == Init /\ [][NextQuiet]_vars

\* SpecRun when every store write may raise, the handler's own included, and
\* the event loop keeps running the task: a step of the task that is possible
\* is eventually taken (each call returns or raises).
NextFair ==
  \/ Login
  \/ SubmitJob
  \/ RunStep
  \/ Raise
  \/ Crash
  \/ Cancel

TaskStep == RunStep \/ Raise \/ Crash

SpecFair == Init /\ [][NextFair]_vars /\ WF_vars(TaskStep)

\* --------------------------------------------------------------------
\* Properties of the background task (checked under SpecRun, SpecQuiet and
\* SpecFair)
\* --------------------------------------------------------------------
WellFormed(loc) == Len(split(loc)) >= 2
CityOf(loc) == strip(split(loc)[1])
StateOf(loc) == strip(split(loc)[2])
Malformed(cities) == {i \in 1..Len(cities) : ~WellFormed(cities[i])}

\* C1: in every state of every job 0 <= progress <= 100, and progress = 100
\* exactly when the status is completed.
C1_ProgressIffCompleted ==
  \A j \in JobIds :
    /\ jobs[j].progress \in 0..100
    /\ (jobs[j].progress = 100) <=> (jobs[j].status = COMPLETED)

\* C2: the persisted status of a job changes only along pending -> running,
\* running -> completed and running -> failed, so a completed or failed job
\* keeps its status, under every interleaving with the external actor.
C2_StatusLifecycle ==
  [][\A j \in JobIds :
       jobs'[j].status # jobs[j].status =>
         <<jobs[j].status, jobs'[j].status>> \in
            {<<PENDING, RUNNING>>, <<RUNNING, COMPLETED>>, <<RUNNING, FAILED>>}]_vars

\* C5: a finished run over N well-formed locations in which every scrape call
\* returned K records leaves exactly N*K result rows of the job, the rows of
\* the i-th location carrying its parsed city and state, and the job
\* completed with progress 100.
C5_RowsPerLocation ==
  \A j \in JobIds : \A K \in 0..MaxResults :
    LET t == tasks[j]
        cities == jobs[j].cities_data
        N == Len(cities)
        rows == ResultsOf(j)
    IN (/\ t.pc = "done" /\ t.exc = None /\ ~t.cancelled
        /\ Malformed(cities) = {}
        /\ \A i \in 1..Len(t.counts) : t.counts[i] = K)
       => /\ Len(rows) = N * K
          /\ \A i \in 1..N : \A k \in 1..K :
                /\ rows[(i - 1) * K + k].city = CityOf(cities[i])
                /\ rows[(i - 1) * K + k].state = StateOf(cities[i])
          /\ jobs[j].status = COMPLETED
          /\ jobs[j].progress = 100

\* C5 witness: a finished job of two different locations, two rows each.
C5_Witness ==
  \E j \in JobIds :
    /\ tasks[j].pc = "done" /\ tasks[j].exc = None
    /\ jobs[j].cities_data = <<LocThree, LocReno>>
    /\ tasks[j].counts = <<2, 2>>
    /\ Len(ResultsOf(j)) = 4

\* The part of C6 that the task and its amendment share: a location with
\* fewer than two parts gets no write to the job row and no result row, the
\* task never reaches the scrape call with it, and a run from which no
\* exception escaped ends completed.
SkippedQuietly(j) ==
  LET t == tasks[j]
      cities == jobs[j].cities_data
  IN /\ (/\ t.pc = "loop" /\ t.idx < Len(cities)
         /\ ~WellFormed(cities[t.idx + 1])
         /\ jobs[j].status # FAILED
         /\ tasks'[j] # t /\ tasks'[j].exc = None)
        => /\ jobs'[j] = jobs[j]
           /\ results' = results
           /\ tasks'[j] = [t EXCEPT !.idx = t.idx + 1]
     /\ tasks'[j].pc \in {"proclog", "scrape", "save", "foundlog"}
        => WellFormed(cities[tasks'[j].idx + 1])
     /\ (tasks'[j].pc = "done" /\ tasks'[j].exc = None)
        => jobs'[j].status = COMPLETED

\* The number of locations with two parts or more among the first n.
Processed(cities, n) == Cardinality({i \in 1..n : WellFormed(cities[i])})

\* C6: a location with fewer than two parts is skipped without a scrape
\* call, a result row or a progress write, it does not count in the
\* processed-location count from which later progress is computed, and the
\* job still ends completed.
C6_SkipNotCounted ==
  [][\A j \in JobIds :
       /\ SkippedQuietly(j)
       /\ (tasks[j].pc = "loop" /\ tasks'[j].pc = "proclog")
          => jobs'[j].progress =
               (Processed(jobs[j].cities_data, tasks[j].idx + 1) * 100)
                  \div Len(jobs[j].cities_data)]_vars

\* C6 as amended: the skipped location still counts as a position: the
\* progress written for the location at 0-based index idx is the integer part
\* of 100 * (idx + 1) / len(cities_data), skipped locations included.
C6_SkipCountedByPosition ==
  [][\A j \in JobIds :
       /\ SkippedQuietly(j)
       /\ (tasks[j].pc = "loop" /\ tasks'[j].pc = "proclog")
          => jobs'[j].progress =
               ((tasks[j].idx + 1) * 100) \div Len(jobs[j].cities_data)]_vars

\* C6 witness: a completed job whose list starts with a skipped location and
\* whose only progress write, at index 1 of 2, stored 100.
C6_Witness ==
  \E j \in JobIds :
    /\ jobs[j].cities_data = <<LocBad, LocReno>>
    /\ tasks[j].pc = "save"
    /\ jobs[j].progress = 100
    /\ ResultsOf(j) = <<>>

\* C8: scrape_location always returns a list: the step of the scrape call
\* ends with the task holding the returned list and the status as it was.
C8_ScrapeReturnsList ==
  [][\A j \in JobIds :
       (tasks[j].pc = "scrape" /\ tasks'[j] # tasks[j])
         => /\ tasks'[j].pc = "save"
            /\ jobs'[j].status = jobs[j].status]_vars

C10_ProgressMonotone ==
  [][\A j \in JobIds : jobs'[j].progress >= jobs[j].progress]_vars

\* C10 witness: the second progress write of a job whose list has a
\* location without a comma has happened.
C10_Witness ==
  \E j \in JobIds :
    /\ Len(jobs[j].cities_data) = 3
    /\ Malformed(jobs[j].cities_data) = {2}
    /\ tasks[j].idx = 2 /\ tasks[j].pc = "proclog"
    /\ jobs[j].progress = 100

LoopBody == {"loop", "proclog", "scrape", "save", "foundlog"}

\* C15: at the head of every iteration the task reads the persisted status
\* and, finding it failed, leaves the loop without a write; and from then on
\* it never is in the loop again, makes no scrape call, inserts no result row
\* and writes no current location, and the only progress write left is the
\* one of the completion update after the loop.
C15_CancelStopsLoop ==
  [][\A j \in JobIds :
       LET t == tasks[j] IN
       /\ (/\ t.pc = "loop" /\ t.idx < Len(jobs[j].cities_data)
           /\ jobs[j].status = FAILED
           /\ tasks'[j] # t /\ tasks'[j].exc = None)
          => /\ tasks'[j] = [t EXCEPT !.pc = "csv", !.cancelled = TRUE]
             /\ jobs'[j] = jobs[j]
             /\ results' = results
       /\ t.cancelled
          => /\ tasks'[j].cancelled
             /\ tasks'[j].pc \notin LoopBody
             /\ tasks'[j].idx = t.idx
             /\ tasks'[j].counts = t.counts
             /\ results' = results
             /\ jobs'[j].current_city = jobs[j].current_city
             /\ jobs'[j].progress # jobs[j].progress => t.pc = "complete"]_vars

\* C15 witness: a task over three locations that left the loop at the second
\* one, after two rows for the first, and has run to its end.
C15_Witness ==
  \E j \in JobIds :
    /\ tasks[j].cancelled /\ tasks[j].pc = "done"
    /\ Len(jobs[j].cities_data) = 3 /\ tasks[j].idx = 1
    /\ tasks[j].counts = <<2>>
    /\ Len(ResultsOf(j)) = 2

\* round(a / b) of Python 3 for integers a >= 0, b > 0: to the nearest
\* integer, a tie to the even one.
Round(a, b) ==
  LET q == a \div b
      r == a % b
  IN IF 2 * r < b THEN q
     ELSE IF 2 * r > b THEN q + 1
     ELSE IF q % 2 = 0 THEN q ELSE q + 1

\* C16: the progress written for the location at position k (counted from
\* one) of a list of n locations is round(100 * k / n); stated for the lists
\* in which every location has two parts, where k is also the number of
\* locations taken up so far.
C16_ProgressRounded ==
  [][\A j \in JobIds :
       (/\ tasks[j].pc = "loop" /\ tasks'[j].pc = "proclog"
        /\ Malformed(jobs[j].cities_data) = {})
         => jobs'[j].progress =
              Round(100 * (tasks[j].idx + 1), Len(jobs[j].cities_data))]_vars

\* C16 as amended: that progress is the integer part of 100 * k / n: the
\* largest p with p * n <= 100 * k.
C16_ProgressTruncated ==
  [][\A j \in JobIds :
       (tasks[j].pc = "loop" /\ tasks'[j].pc = "proclog")
         => LET p == jobs'[j].progress
                k == tasks[j].idx + 1
                n == Len(jobs[j].cities_data)
            IN /\ p * n <= 100 * k
               /\ 100 * k < (p + 1) * n]_vars

\* C16 witness: the write for the second of three locations stored 66.
C16_Witness ==
  \E j \in JobIds :
    /\ Len(jobs[j].cities_data) = 3 /\ Malformed(jobs[j].cities_data) = {}
    /\ tasks[j].pc = "proclog" /\ tasks[j].idx = 1
    /\ jobs[j].progress = 66

Terminal(j) == j \in JobIds /\ jobs[j].status \in {COMPLETED, FAILED}

\* C11: every job created by POST /api/jobs eventually has the status
\* completed or failed (which GET /api/jobs/{id} then reports to its owner),
\* when its task keeps being scheduled and every call returns or raises.
C11_EventuallyTerminal ==
  \A j \in 1..MaxJobs : (j \in JobIds) ~> Terminal(j)

\* What does hold under SpecFair: the job becomes terminal unless an
\* exception left the task without the handler having recorded it.
TerminalUnlessCrashed ==
  \A j \in 1..MaxJobs :
    (j \in JobIds) ~> (Terminal(j) \/ (j \in JobIds /\ tasks[j].pc = "crashed"))

\* --------------------------------------------------------------------
\* Properties of the API surface (checked under Spec)
\* --------------------------------------------------------------------

\* C3: for every job and every token that authenticates an approved user:
\* the owner gets the job from GET /api/jobs/{id}; anybody else gets 404 from
\* GET /api/jobs/{id}, /results and /download and does not find the job in
\* GET /api/jobs, whatever the status of the job.
C3_OnlyOwnerRetrieves ==
  \A j \in JobIds : \A token \in PresentedTokens :
    LET cu == get_current_user(token)
        id == jobs[j].job_id
    IN cu.code = 200 =>
         IF cu.user.id = jobs[j].user_id
           THEN /\ get_job_status(token, id).code = 200
                /\ get_job_status(token, id).body.job = jobs[j]
           ELSE /\ get_job_status(token, id).code = 404
                /\ get_job_results(token, id).code = 404
                /\ download_results(token, id).code = 404
                /\ id \notin get_user_jobs(token).body

\* C3 witness: a completed job with a result row, its owner and another
\* approved user both hold a token, and the other user has just asked for
\* the results.
C3_Witness ==
  \E j \in JobIds : \E t1, t2 \in tokens :
    /\ get_current_user(t1).code = 200 /\ get_current_user(t2).code = 200
    /\ get_current_user(t1).user.id = jobs[j].user_id
    /\ get_current_user(t2).user.id # jobs[j].user_id
    /\ jobs[j].status = COMPLETED /\ ResultsOf(j) # <<>>
    /\ resp = Resp("job_results", t2, jobs[j].job_id, 404)

\* The handlers behind get_current_user and get_admin_user.
ApprovedOps == {"me", "create_job", "job_status", "user_jobs", "job_results",
                "download", "admin_users", "approve", "delete", "admin_stats"}

Unapproved(sub) == \E u \in users : u.username = sub /\ ~u.is_approved

\* C4: a request to any of these handlers with a token that names a user
\* whose approval flag is not set is answered 403, whether the token is valid
\* or not, and changes nothing.
C4_UnapprovedForbidden ==
  [][(resp'.op \in ApprovedOps /\ Unapproved(resp'.tok.sub))
       => /\ resp'.code = 403
          /\ UNCHANGED <<dbVars, tokens, tasks>>]_vars

\* C4 as amended: such a request changes nothing and is answered 403 when
\* the token is valid and 401 when it is not.
C4_UnapprovedRejected ==
  [][(resp'.op \in ApprovedOps /\ Unapproved(resp'.tok.sub))
       => /\ resp'.code = IF resp'.tok \in tokens THEN 403 ELSE 401
          /\ UNCHANGED <<dbVars, tokens, tasks>>]_vars

\* C4 witness: a job submission with a valid token whose user is not
\* approved has been answered 403.
C4_Witness ==
  /\ resp.op = "create_job" /\ resp.code = 403
  /\ resp.tok \in tokens
  /\ Unapproved(resp.tok.sub)

\* C7: a login with the correct password is answered 403 while the user is
\* not approved; a user approved by the admin's approve call stays approved
\* while the row exists, and then the login is answered 200 with a token
\* that get_current_user accepts.
C7_LoginFollowsApproval ==
  /\ [](\A u \in users : \A p \in Passwords :
          verify_password(p, u.password_hash) =>
            login_code(u.username, p) = IF u.is_approved THEN 200 ELSE 403)
  /\ []((resp.op = "login" /\ resp.code = 200) =>
          /\ resp.tok \in tokens
          /\ get_current_user(resp.tok).code = 200
          /\ get_current_user(resp.tok).user.id = resp.tok.uid)
  /\ []((resp.op = "approve" /\ resp.code = 200) =>
          \A u \in users : (u.id = resp.arg) => u.is_approved)
  /\ [][/\ \A u \in users : \A v \in users' :
             (v.id = u.id /\ u.is_approved) => v.is_approved
        /\ (resp'.op = "login" /\ resp'.code = 403) =>
             UNCHANGED <<users, tokens>>]_vars

\* C7 witness: a user registered after the start, approved since, has just
\* logged in.
C7_Witness ==
  /\ resp.op = "login" /\ resp.code = 200
  /\ resp.tok.uid > 1
  /\ \E u \in users : u.id = resp.tok.uid /\ u.is_approved /\ ~u.is_admin

\* C12: for a caller that get_current_user accepts, /download answers 404
\* when the caller does not own the job, 400 when the caller owns it and its
\* status is pending, running or failed, and the rows of the job only when
\* the status is completed; /results answers the owner with the rows written
\* so far whatever the status.
C12_DownloadNeedsCompleted ==
  \A token \in PresentedTokens : \A id \in 1..MaxJobs :
    LET cu == get_current_user(token)
        d == download_results(token, id)
        r == get_job_results(token, id)
        rows == SelectSeq(results, LAMBDA x : x.job_id = id)
    IN cu.code = 200 =>
         IF id \notin JobIds \/ jobs[id].user_id # cu.user.id
           THEN d.code = 404 /\ r.code = 404
           ELSE /\ r.code = 200 /\ r.body = rows
                /\ jobs[id].status \in {PENDING, RUNNING, FAILED} => d.code = 400
                /\ jobs[id].status = COMPLETED => (d.code = 200 /\ d.body = rows)
                /\ d.code = 200 => jobs[id].status = COMPLETED

\* C12 witness: the owner of a running job that already has a result row has
\* just been refused the download, and /results gives the owner that row.
C12_Witness ==
  \E j \in JobIds :
    /\ resp = Resp("download", resp.tok, j, 400)
    /\ jobs[j].status = RUNNING
    /\ get_job_results(resp.tok, j).code = 200
    /\ Len(get_job_results(resp.tok, j).body) = 1

\* The handlers behind get_admin_user.
AdminOps == {"admin_users", "approve", "delete", "admin_stats"}

\* The token is valid and was issued to the user row it names now, which is
\* approved and is an admin.
ApprovedAdmin(token) ==
  /\ token \in tokens
  /\ \E u \in users : /\ u.username = token.sub /\ u.id = token.uid
                       /\ u.is_approved /\ u.is_admin

\* C13: a call of an admin endpoint by anybody but an approved admin is
\* answered 401 or 403 and changes nothing; and whenever the approval flag of
\* a user changes or a user row disappears, the step is an approve or delete
\* call for that user, answered 200, made by an approved admin.
C13_AdminOnly ==
  /\ [][(resp'.op \in AdminOps /\ ~ApprovedAdmin(resp'.tok))
          => /\ resp'.code \in {401, 403}
             /\ UNCHANGED <<dbVars, tokens, tasks>>]_vars
  /\ [][\A u \in users :
          (\A v \in users' : v.id = u.id => v.is_approved # u.is_approved)
            => /\ resp'.op \in {"approve", "delete"}
               /\ resp'.code = 200
               /\ resp'.arg = u.id
               /\ ApprovedAdmin(resp'.tok)]_vars

\* C13 witness: an approved user who is not an admin, holding a valid token,
\* has just been refused the deletion of the admin.
C13_Witness ==
  /\ resp = Resp("delete", resp.tok, 1, 403)
  /\ resp.tok \in tokens
  /\ \E u \in users : /\ u.username = resp.tok.sub /\ u.id = resp.tok.uid
                       /\ u.is_approved /\ ~u.is_admin
  /\ \E u \in users : u.id = 1

\* C14: a register call with a username or an email that a user row holds is
\* answered 400 and leaves table users as it is; any other register call adds
\* exactly one row, with that username and email, a new id, not approved and
\* not admin; and in every state no two user rows share a username, an email
\* or an id.
C14_RegisterUnique ==
  /\ [](\A u, v \in users :
          (u.username = v.username \/ u.email = v.email \/ u.id = v.id) => u = v)
  /\ [][\A un \in Usernames, em \in Emails, pw \in RegPasswords :
          register(un, em, pw) =>
            IF \E u \in users : u.username = un \/ u.email = em
              THEN resp'.code = 400 /\ users' = users
              ELSE /\ resp'.code = 201
                   /\ Cardinality(users') = Cardinality(users) + 1
                   /\ \E v \in users' :
                        /\ users' = users \cup {v}
                        /\ v.username = un /\ v.email = em
                        /\ ~v.is_approved /\ ~v.is_admin
                        /\ \A u \in users : u.id # v.id]_vars

\* C14 witness: after a deletion the username alice has been registered
\* again, and a further registration with her email has just been refused.
C14_Witness ==
  /\ resp.op = "register" /\ resp.code = 400
  /\ \E u \in users : u.id = 3 /\ u.username = "alice" /\ ~u.is_approved
  /\ Cardinality(users) = 2

\* The user row that owns job j is gone.
Orphan(j) == \A u \in users : u.id # jobs[j].user_id

\* C17: a delete call removes the user row alone and leaves the job, result
\* and log rows as they are; a job whose owner is gone keeps being without
\* owner, since a new user row never gets the id of an earlier one; and no
\* token gets such a job or its results from any job endpoint.
C17_OrphanJobsUnreachable ==
  /\ [][resp'.op = "delete"
          => /\ UNCHANGED <<jobs, results, job_logs, csv_files, tasks>>
             /\ users' = IF resp'.code = 200
                            THEN {u \in users : u.id # resp'.arg} ELSE users]_vars
  /\ [][/\ \A j \in JobIds : Orphan(j) => Orphan(j)'
        /\ \A v \in users' :
             (\A u \in users : u.id # v.id) => (v.id >= nextUserId /\ nextUserId' > v.id)]_vars
  /\ [](/\ \A u \in users : u.id < nextUserId
        /\ \A j \in JobIds : jobs[j].user_id < nextUserId)
  /\ [](\A j \in JobIds : \A token \in PresentedTokens :
          Orphan(j) =>
            /\ get_job_status(token, jobs[j].job_id).code # 200
            /\ get_job_results(token, jobs[j].job_id).code # 200
            /\ download_results(token, jobs[j].job_id).code # 200
            /\ jobs[j].job_id \notin get_user_jobs(token).body)

\* C17 witness: alice (id 2) was deleted with a job and a result row stored,
\* alice registered again (id 3) and was approved, and the token issued to
\* the first alice has just been answered 404 for that job.
C17_Witness ==
  \E j \in JobIds :
    /\ jobs[j].user_id = 2 /\ Orphan(j)
    /\ Len(ResultsOf(j)) = 1
    /\ \E u \in users : u.id = 3 /\ u.is_approved
    /\ resp = Resp("job_status", [sub |-> "alice", uid |-> 2], jobs[j].job_id, 404)

\* C18: a request to a handler behind get_current_user that bears a token
\* issued to a user row which has been deleted since is answered 401 or 403,
\* whatever has happened after the deletion.
C18_DeletedTokenRejected ==
  [][(/\ resp'.op \in ApprovedOps
      /\ resp'.tok \in tokens
      /\ \A u \in users : u.id # resp'.tok.uid)
       => resp'.code \in {401, 403}]_vars

====
